---------------------------- MODULE Spec2Model ----------------------------
(***************************************************************************)
(* Model of demucs_wrapper.py, a script that selects a torchaudio backend  *)
(* and forwards its command-line arguments to the external `demucs`        *)
(* program through subprocess.run(cmd, check=True).                        *)
(*                                                                         *)
(* The script has no try/except: an exception raised by any statement is   *)
(* uncaught, so the interpreter skips the remaining statements and exits   *)
(* with status 1.  The external program and the torchaudio library are the *)
(* environment: their outcomes are chosen nondeterministically.            *)
(***************************************************************************)
EXTENDS Integers, Sequences, FiniteSets, TLC

\* ---------------------------------------------------------------- bounds
\* Longest argument sequence given by the caller.
MaxArgs == 2
\* The child may exit with a code in 0..MaxExitCode ...
MaxExitCode == 3
\* ... or be killed by a signal 1..MaxSignal (returncode = -signal).
MaxSignal == 2
\* Steps the child may be observed to take while it runs.
MaxChildSteps == 2

\* ------------------------------------------------------------ value sets
\* Argument strings the caller may pass (one of them is the program name
\* itself, to tell an added "demucs" from a forwarded one).
ArgStrings == {"--two-stems=vocals", "song.mp3", "demucs"}

ScriptName == "demucs_wrapper.py"

RECURSIVE SeqsUpTo(_, _)
SeqsUpTo(S, n) ==
    IF n = 0 THEN {<<>>}
    ELSE LET shorter == SeqsUpTo(S, n - 1)
         IN  shorter \cup {Append(s, x) : s \in shorter, x \in S}

\* The caller's argument sequences A.
ArgSeqs == SeqsUpTo(ArgStrings, MaxArgs)

\* Values of Popen.returncode: an exit code, or minus the killing signal.
RetCodes == ((0 - MaxSignal) .. (0 - 1)) \cup (0 .. MaxExitCode)

\* Python's None, and a present value.
None == <<>>
Some(v) == <<v>>
Val(o) == o[1]

\* OSError subclasses Popen raises when the program cannot be executed.
SpawnErrors == {"FileNotFoundError", "PermissionError"}
\* Exceptions of the two torchaudio lines.
ConfigErrors == {"ImportError", "RuntimeError"}

VARIABLES
    sys_argv,       \* sys.argv: the script name followed by the caller's arguments
    pc,             \* position of the script
    config,         \* outcome of lines 1-2: "pending" | "ok" | "failed"
    backend,        \* torchaudio's audio backend setting of this process
    backendWrites,  \* how many times the backend setting was written
    cmd,            \* the variable cmd (None until line 8 has run)
    popen,          \* outcome of Popen: "not_called" | "started" | "failed"
    child,          \* "none" | "running" | "exited"
    childArgv,      \* argv the child process was started with
    childSteps,     \* steps the child has taken
    returncode,     \* the child's return code (None until it exits)
    spawned,        \* number of child processes started
    error,          \* the uncaught exception that ended the script, or "none"
    exitStatus      \* the script's exit status (None until it terminates)

vars == <<sys_argv, pc, config, backend, backendWrites, cmd, popen, child,
          childArgv, childSteps, returncode, spawned, error, exitStatus>>

\* ------------------------------------------------------- pure operators
\* Line 8's right-hand side with the whole of sys.argv kept (a slip).
Cmd_KeepsArgv0(argv) == <<"demucs">> \o argv

\* Line 8: cmd = ["demucs"] + sys.argv[1:]
Cmd(argv) == <<"demucs">> \o SubSeq(argv, 2, Len(argv))

\* A check that only treats positive codes as failures.
CheckRaises_PositiveOnly(check, retcode) == check /\ retcode > 0

\* A run without check=True.
CheckRaises_NoCheck(check, retcode) == FALSE

\* subprocess.run: `if check and retcode: raise CalledProcessError(...)`
CheckRaises(check, retcode) == check /\ retcode # 0

\* An interpreter exit that reports success whatever happened.
ExitStatusOf_AlwaysZero(err) == 0

\* Exit status of the interpreter: 0 when the module body ran to its end,
\* 1 when an uncaught exception ended it.
ExitStatusOf(err) == IF err = "none" THEN 0 ELSE 1

\* The uncaught exception `err` ends the script.
Raise(err) ==
    /\ pc' = "terminated"
    /\ error' = err
    /\ exitStatus' = Some(ExitStatusOf(err))

\* The three-state lifecycle of the script.
Lifecycle(p) ==
    CASE p = "not_started" -> "not_started"
      [] p = "terminated"  -> "terminated"
      [] OTHER             -> "running"

\* ----------------------------------------------------------------- Init
Init ==
    /\ sys_argv \in {<<ScriptName>> \o A : A \in ArgSeqs}
    /\ pc = "not_started"
    /\ config = "pending"
    /\ backend = "unset"
    /\ backendWrites = 0
    /\ cmd = None
    /\ popen = "not_called"
    /\ child = "none"
    /\ childArgv = None
    /\ childSteps = 0
    /\ returncode = None
    /\ spawned = 0
    /\ error = "none"
    /\ exitStatus = None

\* -------------------------------------------------------------- actions
\* Line 1: import torchaudio, when the library can be imported.
ImportTorchaudio ==
    /\ pc = "not_started"
    /\ pc' = "imported"
    /\ UNCHANGED <<config, popen, sys_argv, backend, backendWrites, cmd,
                   child, childArgv, childSteps, returncode, spawned,
                   error, exitStatus>>

\* Line 1 when the library is missing or broken: ImportError, uncaught.
ImportTorchaudioFails ==
    /\ pc = "not_started"
    /\ Raise("ImportError")
    /\ config' = "failed"
    /\ UNCHANGED <<popen, sys_argv, backend, backendWrites, cmd, child,
                   childArgv, childSteps, returncode, spawned>>

\* Line 2 with the exception swallowed (try/except: pass around the call).
SetAudioBackendFails_Swallowed ==
    /\ pc = "imported"
    /\ pc' = "configured"
    /\ config' = "failed"
    /\ UNCHANGED <<popen, sys_argv, backend, backendWrites, cmd, child,
                   childArgv, childSteps, returncode, spawned, error,
                   exitStatus>>

\* Line 2: torchaudio.set_audio_backend("soundfile") returns.
SetAudioBackend ==
    /\ pc = "imported"
    /\ backend' = "soundfile"
    /\ backendWrites' = backendWrites + 1
    /\ pc' = "configured"
    /\ config' = "ok"
    /\ UNCHANGED <<popen, sys_argv, cmd, child, childArgv, childSteps,
                   returncode, spawned, error, exitStatus>>

\* Line 2 when the library rejects the call (backend unavailable, function
\* removed): the exception is uncaught.
SetAudioBackendFails ==
    /\ pc = "imported"
    /\ Raise("RuntimeError")
    /\ config' = "failed"
    /\ UNCHANGED <<popen, sys_argv, backend, backendWrites, cmd, child,
                   childArgv, childSteps, returncode, spawned>>

\* Lines 4-8: the imports of sys and subprocess, then the assignment of cmd.
BuildCmd ==
    /\ pc = "configured"
    /\ cmd' = Some(Cmd(sys_argv))
    /\ pc' = "built"
    /\ UNCHANGED <<config, popen, sys_argv, backend, backendWrites, child,
                   childArgv, childSteps, returncode, spawned, error,
                   exitStatus>>

\* The child started before the torchaudio call was made.
SpawnChild_BeforeConfig ==
    /\ pc \in {"imported", "built"}
    /\ child = "none"
    /\ cmd' = Some(Cmd(sys_argv))
    /\ child' = "running"
    /\ childArgv' = cmd'
    /\ spawned' = spawned + 1
    /\ pc' = "waiting"
    /\ popen' = "started"
    /\ UNCHANGED <<config, sys_argv, backend, backendWrites, childSteps,
                   returncode, error, exitStatus>>

\* Popen without the wait of run(): the script goes on to its end at once.
SpawnChild_NoWait ==
    /\ pc = "built"
    /\ child' = "running"
    /\ childArgv' = cmd
    /\ spawned' = spawned + 1
    /\ pc' = "terminated"
    /\ exitStatus' = Some(ExitStatusOf("none"))
    /\ popen' = "started"
    /\ UNCHANGED <<config, sys_argv, backend, backendWrites, cmd,
                   childSteps, returncode, error>>

\* Line 9, subprocess.run: Popen(cmd) starts the child; run() then blocks in
\* communicate().
SpawnChild ==
    /\ pc = "built"
    /\ child' = "running"
    /\ childArgv' = cmd
    /\ spawned' = spawned + 1
    /\ pc' = "waiting"
    /\ popen' = "started"
    /\ UNCHANGED <<config, sys_argv, backend, backendWrites, cmd,
                   childSteps, returncode, error, exitStatus>>

\* Line 9 when Popen cannot execute the program: an OSError, uncaught.
SpawnFails ==
    /\ pc = "built"
    /\ \E e \in SpawnErrors : Raise(e)
    /\ popen' = "failed"
    /\ UNCHANGED <<config, sys_argv, backend, backendWrites, cmd, child,
                   childArgv, childSteps, returncode, spawned>>

\* The external program does some of its work.
ChildRuns ==
    /\ child = "running"
    /\ childSteps < MaxChildSteps
    /\ childSteps' = childSteps + 1
    /\ UNCHANGED <<config, popen, sys_argv, pc, backend, backendWrites,
                   cmd, child, childArgv, returncode, spawned, error,
                   exitStatus>>

\* The external program terminates with return code n.
ChildExits ==
    /\ child = "running"
    /\ \E n \in RetCodes : returncode' = Some(n)
    /\ child' = "exited"
    /\ UNCHANGED <<config, popen, sys_argv, pc, backend, backendWrites,
                   cmd, childArgv, childSteps, spawned, error, exitStatus>>

\* A run() that launches the program once more after a failure.
RunReturns_Retry ==
    /\ pc = "waiting"
    /\ child = "exited"
    /\ IF CheckRaises(TRUE, Val(returncode)) /\ spawned < 2
         THEN /\ pc' = "built"
              /\ child' = "none"
              /\ returncode' = None
              /\ UNCHANGED <<error, exitStatus>>
         ELSE /\ pc' = "terminated"
              /\ error' = IF CheckRaises(TRUE, Val(returncode))
                             THEN "CalledProcessError" ELSE "none"
              /\ exitStatus' = Some(ExitStatusOf(error'))
              /\ UNCHANGED <<child, returncode>>
    /\ UNCHANGED <<config, popen, sys_argv, backend, backendWrites, cmd,
                   childArgv, childSteps, spawned>>

\* A run() with a timeout: it may give up while the child is still running,
\* kill it and raise TimeoutExpired.
RunReturns_Timeout ==
    /\ pc = "waiting"
    /\ IF child = "running"
         THEN /\ child' = "exited"
              /\ returncode' = Some(0 - 1)
              /\ Raise("TimeoutExpired")
         ELSE /\ IF CheckRaises(TRUE, Val(returncode))
                   THEN Raise("CalledProcessError")
                   ELSE /\ pc' = "terminated"
                        /\ exitStatus' = Some(ExitStatusOf("none"))
                        /\ UNCHANGED error
              /\ UNCHANGED <<child, returncode>>
    /\ UNCHANGED <<config, popen, sys_argv, backend, backendWrites, cmd,
                   childArgv, childSteps, spawned>>

\* Line 9, the rest of subprocess.run: communicate() returns once the child
\* has exited, the return code is checked (check=True), and either
\* CalledProcessError is raised, uncaught, or run() returns and the script,
\* having no further statement, ends.
RunReturns ==
    /\ pc = "waiting"
    /\ child = "exited"
    /\ IF CheckRaises(TRUE, Val(returncode))
         THEN Raise("CalledProcessError")
         ELSE /\ pc' = "terminated"
              /\ exitStatus' = Some(ExitStatusOf("none"))
              /\ UNCHANGED error
    /\ UNCHANGED <<config, popen, sys_argv, backend, backendWrites, cmd,
                   child, childArgv, childSteps, returncode, spawned>>

\* Steps of the script itself.
Forwarder ==
    \/ ImportTorchaudio
    \/ ImportTorchaudioFails
    \/ SetAudioBackend
    \/ SetAudioBackendFails
    \/ BuildCmd
    \/ SpawnChild
    \/ SpawnFails
    \/ RunReturns

\* Steps of the external program.
Child ==
    \/ ChildRuns
    \/ ChildExits

Next == Forwarder \/ Child

Spec == Init /\ [][Next]_vars

\* The interpreter keeps executing the script; nothing obliges the external
\* program to make progress or to terminate.
FairSpec == Spec /\ WF_vars(Forwarder)

TypeOK ==
    /\ sys_argv \in {<<ScriptName>> \o A : A \in ArgSeqs}
    /\ pc \in {"not_started", "imported", "configured", "built", "waiting",
               "terminated"}
    /\ config \in {"pending", "ok", "failed"}
    /\ popen \in {"not_called", "started", "failed"}
    /\ backend \in {"unset", "soundfile"}
    /\ backendWrites \in 0..1
    /\ child \in {"none", "running", "exited"}
    /\ childSteps \in 0..MaxChildSteps
    /\ returncode \in {None} \cup {Some(n) : n \in RetCodes}
    /\ spawned \in 0..1
    /\ error \in {"none", "CalledProcessError"} \cup SpawnErrors \cup ConfigErrors
    /\ exitStatus \in {None, Some(0), Some(1)}

\* ------------------------------------------------------ state predicates
\* The script has ended.
Terminated == pc = "terminated"

\* Popen could not locate or execute the program.
SpawnFailed == popen = "failed"

\* The child ended with a non-zero return code and run() has yet to return.
ChildFailed == pc = "waiting" /\ child = "exited" /\ returncode # Some(0)

\* `list` is "demucs" followed by the caller's arguments (sys.argv without
\* the script name), element by element.
IsDemucsThenArgs(list, argv) ==
    /\ Len(list) = Len(argv)
    /\ list[1] = "demucs"
    /\ \A i \in 2..Len(argv) : list[i] = argv[i]

\* Position of a step in the script's text.
StepRank(p) ==
    CASE p = "not_started" -> 0
      [] p = "imported"    -> 1
      [] p = "configured"  -> 2
      [] p = "built"       -> 3
      [] p = "waiting"     -> 4
      [] p = "terminated"  -> 5

\* Position of a lifecycle state.
LifecycleRank(l) ==
    CASE l = "not_started" -> 0
      [] l = "running"     -> 1
      [] l = "terminated"  -> 2

\* =============================================================== claims

\* C1: for every argument sequence A (the empty one included), the list the
\* external tool is invoked with is "demucs" followed by the elements of A
\* in order, nothing added, dropped, duplicated or altered; the child that
\* is started receives that very list.
C1_ArgsForwardedVerbatim ==
    /\ cmd # None => IsDemucsThenArgs(Val(cmd), sys_argv)
    /\ popen # "not_called" => cmd # None
    /\ child # "none" =>
         /\ childArgv # None
         /\ IsDemucsThenArgs(Val(childArgv), sys_argv)

\* C1 witness: the child runs as `demucs --two-stems=vocals song.mp3`.
C1_Witness ==
    /\ sys_argv = <<ScriptName, "--two-stems=vocals", "song.mp3">>
    /\ child = "running"
    /\ childArgv = Some(<<"demucs", "--two-stems=vocals", "song.mp3">>)

\* C2 as stated: whatever code N the external program terminates with, the
\* script's own exit status equals N.
C2_ExitStatusEqualsChildCode ==
    Terminated /\ child = "exited" /\ Val(returncode) >= 0 =>
        exitStatus = returncode

\* C2 as amended: the script's exit status is 0 when the external program
\* terminates with 0 and 1 when it terminates with any other return code.
C2_ExitStatusIsZeroOrOne ==
    Terminated /\ child = "exited" =>
        exitStatus = Some(IF returncode = Some(0) THEN 0 ELSE 1)

\* C2 witness: the child exited with 3 and the script with 1.
C2_Witness ==
    /\ Terminated
    /\ child = "exited"
    /\ returncode = Some(3)
    /\ exitStatus = Some(1)

\* C3: when the external tool is launched and terminates with N, the
\* script's exit status is 0 if and only if N = 0.
C3_ZeroIffZero ==
    Terminated /\ child = "exited" =>
        /\ exitStatus # None
        /\ (exitStatus = Some(0) <=> returncode = Some(0))

\* C3 witness: the child was killed by a signal and the script exited
\* non-zero.
C3_Witness ==
    /\ Terminated
    /\ child = "exited"
    /\ returncode = Some(0 - 1)
    /\ exitStatus # Some(0)

\* C4 as stated: when the tool cannot be located or executed the script
\* terminates non-zero, with the error kind reported for a non-zero exit of
\* the tool.
C4_SameErrorKindAsNonZeroExit ==
    SpawnFailed =>
        /\ Terminated
        /\ exitStatus \notin {None, Some(0)}
        /\ error = "CalledProcessError"

\* C4 as amended: when the tool cannot be located or executed the script
\* terminates with exit status 1 (the status it also has when the tool exits
\* non-zero), no child having been started, and the error it reports is an
\* OSError (FileNotFoundError or PermissionError), not the
\* CalledProcessError reported for a non-zero exit.
C4_SpawnFailureExitsNonZero ==
    SpawnFailed =>
        /\ Terminated
        /\ exitStatus = Some(1)
        /\ error \in SpawnErrors
        /\ child = "none"

\* C4 witness: the program was not found and the script has ended.
C4_Witness ==
    SpawnFailed /\ Terminated /\ error = "FileNotFoundError"

\* C5 as stated: every execution that reaches termination has spawned
\* exactly one child process.
C5_ExactlyOneChild ==
    Terminated => spawned = 1

\* C5 as amended: an execution spawns at most one child process; one that
\* reaches termination has spawned exactly one when it ended normally or
\* with CalledProcessError, and none when the import or the backend call
\* raised or the program could not be executed.  The only other state it
\* writes is the backend setting.
C5_AtMostOneChild ==
    /\ spawned \in {0, 1}
    /\ backend \in {"unset", "soundfile"}
    /\ Terminated =>
         spawned = (IF error \in {"none", "CalledProcessError"} THEN 1 ELSE 0)

\* C5 witness: a terminated run that spawned its one child.
C5_Witness ==
    Terminated /\ spawned = 1 /\ error = "none"

\* C6: the script is never terminated while the child it spawned is still
\* running; when it terminates, a spawned child has already exited.
C6_ChildExitsBeforeForwarder ==
    /\ Terminated => child # "running"
    /\ Terminated /\ spawned > 0 => child = "exited" /\ returncode # None

\* C6 witness: the script ended after a child that had run for a while.
C6_Witness ==
    Terminated /\ child = "exited" /\ childSteps > 0

\* C7: once the external program has failed, the script's next step is its
\* own termination with a failure: no second child, no retry, no step in
\* between.  A program that cannot be started ends the script in that very
\* step.
C7_FailureTerminatesNext ==
    /\ [][ChildFailed =>
            /\ pc' = "terminated"
            /\ exitStatus' \notin {None, Some(0)}
            /\ spawned' = spawned
            /\ child' = child]_vars
    /\ [](SpawnFailed => Terminated /\ exitStatus \notin {None, Some(0)})
    /\ [](spawned <= 1)

\* C7 witness: the child exited with 1 and the script has ended in failure.
C7_Witness ==
    /\ Terminated
    /\ returncode = Some(1)
    /\ error = "CalledProcessError"
    /\ spawned = 1

\* C8: the steps occur in the order configuration call, argument list,
\* spawn, wait, termination; no child exists before the configuration call
\* has completed; the backend setting is written at most once; and the
\* lifecycle only moves forward.
C8_FixedOrder ==
    /\ [](cmd # None => config = "ok")
    /\ [](child # "none" => config = "ok" /\ cmd # None)
    /\ [](Terminated /\ spawned > 0 => child = "exited")
    /\ [](backendWrites <= 1)
    /\ [](config = "ok" => backendWrites = 1 /\ backend = "soundfile")
    /\ [][StepRank(pc') >= StepRank(pc)]_vars
    /\ [][LifecycleRank(Lifecycle(pc')) >= LifecycleRank(Lifecycle(pc))]_vars
    /\ [][backend # "unset" => backend' = backend]_vars

\* C8 witness: a run that went through every step.
C8_Witness ==
    /\ Terminated
    /\ backendWrites = 1
    /\ cmd # None
    /\ child = "exited"
    /\ returncode = Some(0)
    /\ childSteps = 0

\* C9 as stated: whether the backend selection succeeds or fails, the
\* external tool is invoked with the caller's arguments.
C9_ToolInvokedWhateverConfig ==
    Terminated =>
        /\ popen # "not_called"
        /\ cmd # None

\* C9 as amended: when the backend selection succeeds, the external tool is
\* invoked with the caller's arguments and the script's exit status is 0
\* exactly when the tool was started and exited with 0; when the import or
\* the backend selection fails, the script terminates with exit status 1
\* and the tool is never invoked.
C9_ConfigFailureAborts ==
    Terminated =>
        IF config = "ok"
          THEN /\ popen # "not_called"
               /\ cmd # None
               /\ IsDemucsThenArgs(Val(cmd), sys_argv)
               /\ exitStatus # None
               /\ (exitStatus = Some(0) <=> returncode = Some(0))
          ELSE /\ config = "failed"
               /\ popen = "not_called"
               /\ spawned = 0
               /\ exitStatus = Some(1)

\* C9 witness: the backend call raised and the script has ended.
C9_Witness ==
    Terminated /\ config = "failed" /\ error = "RuntimeError"

\* C10: under fairness of the script's own steps, once the child has
\* terminated the script eventually terminates; a program that could not be
\* started has ended the script; and with no timeout or cancellation the
\* script does not leave its wait while the child is running.
C10_TerminatesWithChild ==
    /\ (child = "exited") ~> Terminated
    /\ [](SpawnFailed => Terminated)
    /\ [][pc = "waiting" /\ child = "running" => pc' = "waiting"]_vars
    /\ [](child = "running" => pc = "waiting" /\ exitStatus = None)

\* C10 witness: the script is blocked on a child that keeps running.
C10_Witness ==
    pc = "waiting" /\ child = "running" /\ childSteps > 0

=============================================================================
